---- MODULE Spec2Model ----
(***************************************************************************)
(* Model of the mutating admission webhook in webhook.go.                  *)
(*                                                                         *)
(* Strings the code inspects character by character (label keys, JSON     *)
(* Pointer paths) are sequences of one-character strings, so that          *)
(* strings.HasPrefix and strings.ReplaceAll are computed, not assumed.     *)
(* Opaque strings (UIDs, label values, messages) are TLA+ strings.         *)
(***************************************************************************)
EXTENDS Integers, Sequences, FiniteSets, TLC

VARIABLES
    pc,        \* position of the handler goroutine in serveMutate/mutate
    body,      \* the bytes read from r.Body (io.ReadAll), by shape
    reviewReq, \* admissionv1.AdmissionReview decoded from body
    pod,       \* corev1.Pod decoded from req.Object.Raw (its Labels)
    labels,    \* the map returned by getLabelsFromAPI
    apiErr,    \* the error returned by getLabelsFromAPI ("" is nil)
    calls,     \* the functions this review has called, in call order
    patches,   \* the []map[string]interface{} built by mutate
    response,  \* the *AdmissionResponse returned by mutate
    status,    \* the HTTP status code of the reply
    written,   \* the AdmissionReview documents written to w
    fnIn,      \* argument of the function under test (function specs)
    fnOut      \* results of the function under test (function specs)

vars == <<pc, body, reviewReq, pod, labels, apiErr, calls, patches,
          response, status, written, fnIn, fnOut>>

handlerVars == <<pc, body, reviewReq, pod, labels, apiErr, calls, patches,
                 response, status, written>>

fnVars == <<fnIn, fnOut>>

-----------------------------------------------------------------------------
(* Bounds *)

\* Largest number of labels carried by the Pod under review.
MaxPodLabels == 2

\* Largest number of labels returned by the Label Source.
MaxApiLabels == 2

\* Longest string handed to escapeJSONPointer in the function specification.
MaxLen == 4

\* Number of runs of the patch loop compared with each other.
NumRuns == 2

-----------------------------------------------------------------------------
(* Strings *)

\* The literal of strings.HasPrefix(key, "rollouts-pod-template-hash").
TargetPrefix ==
    <<"r","o","l","l","o","u","t","s","-","p","o","d","-",
      "t","e","m","p","l","a","t","e","-","h","a","s","h">>

\* The literal "/metadata/labels" of the patch paths.
LabelsPath ==
    <<"/","m","e","t","a","d","a","t","a","/","l","a","b","e","l","s">>

\* strings.HasPrefix(s, prefix)
HasPrefix(s, prefix) ==
    /\ Len(s) >= Len(prefix)
    /\ SubSeq(s, 1, Len(prefix)) = prefix

\* strings.Contains(s, sub)
Contains(s, sub) ==
    \E i \in 1..(Len(s) + 1) :
        /\ i + Len(sub) - 1 <= Len(s)
        /\ SubSeq(s, i, i + Len(sub) - 1) = sub

\* strings.ReplaceAll(s, old, new) for a one-character old: a single left to
\* right pass, the replacement text is not rescanned.
RECURSIVE ReplaceAll(_, _, _)
ReplaceAll(s, old, new) ==
    IF s = <<>> THEN <<>>
    ELSE (IF Head(s) = old THEN new ELSE <<Head(s)>>)
             \o ReplaceAll(Tail(s), old, new)

escapeSlashFirst(s) ==
    ReplaceAll(ReplaceAll(s, "/", <<"~","1">>), "~", <<"~","0">>)

\* escapeJSONPointer: "~" to "~0", then "/" to "~1".
escapeJSONPointer(s) ==
    ReplaceAll(ReplaceAll(s, "~", <<"~","0">>), "/", <<"~","1">>)

-----------------------------------------------------------------------------
(* Go values *)

\* A map[string]string: the nil map reads as an empty map but is not one.
NilMap == [isNil |-> TRUE, m |-> <<>>]

MakeMap(f) == [isNil |-> FALSE, m |-> f]

\* len(m) and the keys of "for key := range m", for a nil map too.
Keys(mp) == DOMAIN mp.m

\* The keys a label map may carry: the marker itself, the marker with a
\* suffix, keys that only resemble the marker, and keys that need escaping.
KeyHash == TargetPrefix
KeyHashFoo == TargetPrefix \o <<"-","f","o","o">>
KeyRollouts == SubSeq(TargetPrefix, 1, 8)
KeyInner == <<"x">> \o TargetPrefix
KeyTeam == <<"t","e","a","m">>
KeyEsc == <<"a","/","b","~","c">>

LabelKeys == {KeyHash, KeyHashFoo, KeyRollouts, KeyInner, KeyTeam, KeyEsc}

PodValues == {"x", "microservices"}

ApiValues == {"microservices"}

\* The non-nil maps with at most n of the keys.
MapsUpTo(keys, values, n) ==
    { MakeMap(f) : f \in UNION { [ks -> values] :
                      ks \in { k \in SUBSET keys : Cardinality(k) <= n } } }

PodLabelMaps == MapsUpTo(LabelKeys, PodValues, MaxPodLabels) \cup {NilMap}

ApiLabelMaps == MapsUpTo(LabelKeys, ApiValues, MaxApiLabels)

\* getLabelsFromAPI as shipped: {"team": "microservices"}, nil.
MockLabels == MakeMap((KeyTeam :> "microservices"))

-----------------------------------------------------------------------------
(* Request bodies *)

\* req.Object.Raw by shape: no bytes, bytes that are not JSON, or a JSON
\* object with metadata.labels absent (nil), {} or a mapping; typeErr says
\* that some other field of the object has a value of the wrong JSON type.
RawObjects ==
    { [form |-> "empty", typeErr |-> FALSE, labels |-> NilMap],
      [form |-> "syntax", typeErr |-> FALSE, labels |-> NilMap] }
    \cup [form : {"json"}, typeErr : BOOLEAN, labels : PodLabelMaps]

UIDs == {"uid-1", "uid-2"}

Kinds == {"Pod", "Deployment"}

\* *admissionv1.AdmissionRequest; isNil is the nil pointer.
NilRequest ==
    [isNil |-> TRUE, uid |-> "", kind |-> "",
     object |-> [form |-> "empty", typeErr |-> FALSE, labels |-> NilMap]]

Requests == [isNil : {FALSE}, uid : UIDs, kind : Kinds, object : RawObjects]

\* The body by shape: unreadable, empty, not JSON, or a JSON document whose
\* "request" member is absent (NilRequest) or present; typeErr says that some
\* member other than uid, kind and object has a value of the wrong JSON type.
Bodies ==
    { [form |-> f, typeErr |-> FALSE, request |-> NilRequest] :
          f \in {"readerr", "empty", "syntax"} }
    \cup [form : {"json"}, typeErr : BOOLEAN,
          request : Requests \cup {NilRequest}]

\* json.Unmarshal(body, &reviewReq): a syntax error is found before anything
\* is stored; a type error is recorded and decoding of the other members goes
\* on, so they are stored although err is returned.
UnmarshalReview(b) ==
    IF b.form = "json"
    THEN [err |-> b.typeErr, review |-> [request |-> b.request]]
    ELSE [err |-> TRUE, review |-> [request |-> NilRequest]]

\* json.Unmarshal(req.Object.Raw, &pod)
UnmarshalPod(raw) ==
    IF raw.form = "json"
    THEN [err |-> raw.typeErr, pod |-> [labels |-> raw.labels]]
    ELSE [err |-> TRUE, pod |-> [labels |-> NilMap]]

-----------------------------------------------------------------------------
(* mutate *)

FoundByContains(podLabels) ==
    \E key \in Keys(podLabels) : Contains(key, TargetPrefix)

\* The loop that looks for a label key starting with the marker.
Found(podLabels) ==
    \E key \in Keys(podLabels) : HasPrefix(key, TargetPrefix)

\* The outcomes of labels, err := getLabelsFromAPI(): a label map, or an
\* error. The function shipped is a stand-in that returns MockLabels.
ApiErrors == {"label API unavailable"}

ApiResults ==
    [labels : ApiLabelMaps \cup {MockLabels}, err : {""}]
    \cup [labels : {NilMap}, err : ApiErrors]

\* The orders in which "for key, value := range labels" may visit the keys:
\* Go leaves the iteration order of a map unspecified.
RangeOrders(mp) ==
    { o \in [1..Cardinality(Keys(mp)) -> Keys(mp)] :
          \A i, j \in DOMAIN o : i # j => o[i] # o[j] }

\* map[string]string{} as the value of an operation.
EmptyObject == [object |-> TRUE, str |-> ""]

StringValue(v) == [object |-> FALSE, str |-> v]

ParentWhenEmpty(podLabels) ==
    IF Keys(podLabels) = {}
    THEN << [op |-> "add", path |-> LabelsPath, value |-> EmptyObject] >>
    ELSE << >>

\* if pod.Labels == nil { patches = append(patches, add /metadata/labels {}) }
ParentPatch(podLabels) ==
    IF podLabels.isNil
    THEN << [op |-> "add", path |-> LabelsPath, value |-> EmptyObject] >>
    ELSE << >>

AlwaysReplace(podLabels, key) == "replace"

\* op := "add", "replace" when the Pod already has the key.
KeyOp(podLabels, key) ==
    IF ~podLabels.isNil /\ key \in DOMAIN podLabels.m
    THEN "replace"
    ELSE "add"

\* The operation appended for one key of the range loop.
KeyPatch(podLabels, lbls, key) ==
    [op |-> KeyOp(podLabels, key),
     path |-> LabelsPath \o <<"/">> \o escapeJSONPointer(key),
     value |-> StringValue(lbls.m[key])]

\* The patch built by mutate when the range loop visits the keys in order o.
BuildPatch(podLabels, lbls, o) ==
    ParentPatch(podLabels)
        \o [i \in 1..Len(o) |-> KeyPatch(podLabels, lbls, o[i])]

\* A []byte that is nil, or holds the JSON text of a patch.
NoPatch == [present |-> FALSE, ops |-> << >>]

\* json.Marshal(patches): text is produced for every slice, "null" for the
\* nil slice; maps of strings never fail to marshal.
MarshalPatch(p) == [present |-> TRUE, ops |-> p]

\* &admissionv1.AdmissionResponse{Allowed: true}
AllowResponse ==
    [uid |-> "", allowed |-> TRUE, message |-> << >>,
     patch |-> NoPatch, patchType |-> ""]

DenyAsAllowed(message) ==
    [uid |-> "", allowed |-> TRUE, message |-> message,
     patch |-> NoPatch, patchType |-> ""]

\* &admissionv1.AdmissionResponse{Allowed: false, Result: &Status{Message}}
DenyResponse(message) ==
    [uid |-> "", allowed |-> FALSE, message |-> message,
     patch |-> NoPatch, patchType |-> ""]

PatchResponseNoType(patchBytes) ==
    [uid |-> "", allowed |-> TRUE, message |-> << >>,
     patch |-> patchBytes, patchType |-> ""]

\* &admissionv1.AdmissionResponse{Allowed: true, Patch, PatchType}
PatchResponse(patchBytes) ==
    [uid |-> "", allowed |-> TRUE, message |-> << >>,
     patch |-> patchBytes, patchType |-> "JSONPatch"]

FetchErrorAllowed(err) ==
    DenyAsAllowed(<<"Error retrieving labels from API: ", err>>)

\* The response of mutate when getLabelsFromAPI returns err.
FetchErrorResponse(err) ==
    DenyResponse(<<"Error retrieving labels from API: ", err>>)

-----------------------------------------------------------------------------
(* serveMutate *)

StatusOK == 200

StatusBadRequest == 400

\* The AdmissionReview envelope with TypeMeta around a response.
Review(resp) ==
    [apiVersion |-> "admission.k8s.io/v1", kind |-> "AdmissionReview",
     response |-> resp]

AdmissionErrorAllowed(message) == DenyAsAllowed(<<message>>)

\* errResp of writeAdmissionError.
AdmissionErrorResponse(message) == DenyResponse(<<message>>)

\* writeAdmissionError(w, code, message), which ends the handler.
writeAdmissionError(code, message) ==
    /\ status' = code
    /\ written' = Append(written, Review(AdmissionErrorResponse(message)))
    /\ calls' = Append(calls, "writeAdmissionError")
    /\ pc' = "Responded"

NoReview == [request |-> NilRequest]

NoPod == [labels |-> NilMap]

Init ==
    /\ pc = "Received"
    /\ body \in Bodies
    /\ reviewReq = NoReview
    /\ pod = NoPod
    /\ labels = NilMap
    /\ apiErr = ""
    /\ calls = << >>
    /\ patches = << >>
    /\ response = AllowResponse
    /\ status = StatusOK
    /\ written = << >>
    /\ fnIn = << >>
    /\ fnOut = << >>

\* body, err := io.ReadAll(r.Body); err != nil || len(body) == 0
ReadBody ==
    /\ pc = "Received"
    /\ IF body.form \in {"readerr", "empty"}
       THEN writeAdmissionError(StatusBadRequest, "Empty request body")
       ELSE /\ pc' = "Read"
            /\ UNCHANGED <<status, written, calls>>
    /\ UNCHANGED <<body, reviewReq, pod, labels, apiErr, patches, response,
                   fnVars>>

\* json.Unmarshal(body, &reviewReq)
ParseReview ==
    /\ pc = "Read"
    /\ LET r == UnmarshalReview(body) IN
         /\ reviewReq' = r.review
         /\ IF r.err
            THEN writeAdmissionError(StatusBadRequest,
                                     "Could not unmarshal AdmissionReview")
            ELSE /\ pc' = "Validated"
                 /\ UNCHANGED <<status, written, calls>>
    /\ UNCHANGED <<body, pod, labels, apiErr, patches, response, fnVars>>

\* mutate(&reviewReq, clientset) up to the check of the kind. req.Kind.Kind
\* dereferences ar.Request: a nil Request panics, net/http recovers the panic
\* of the handler goroutine and closes the connection without a reply.
MutateKind ==
    /\ pc = "Validated"
    /\ calls' = Append(calls, "mutate")
    /\ IF reviewReq.request.isNil
       THEN /\ pc' = "Panicked"
            /\ UNCHANGED response
       ELSE IF reviewReq.request.kind # "Pod"
       THEN /\ response' = AllowResponse
            /\ pc' = "Decided"
       ELSE /\ pc' = "IsPod"
            /\ UNCHANGED response
    /\ UNCHANGED <<body, reviewReq, pod, labels, apiErr, patches, status,
                   written, fnVars>>

\* json.Unmarshal(req.Object.Raw, &pod)
MutateParsePod ==
    /\ pc = "IsPod"
    /\ LET r == UnmarshalPod(reviewReq.request.object) IN
         /\ pod' = r.pod
         /\ IF r.err
            THEN /\ response' = DenyResponse(<<"Could not unmarshal Pod: ",
                                               "json error">>)
                 /\ pc' = "Decided"
            ELSE /\ pc' = "PodParsed"
                 /\ UNCHANGED response
    /\ UNCHANGED <<body, reviewReq, labels, apiErr, calls, patches, status,
                   written, fnVars>>

\* The search for the marker label and "if !found".
MutatePredicate ==
    /\ pc = "PodParsed"
    /\ calls' = Append(calls, "predicate")
    /\ IF Found(pod.labels)
       THEN /\ pc' = "Scoped"
            /\ UNCHANGED response
       ELSE /\ response' = AllowResponse
            /\ pc' = "Decided"
    /\ UNCHANGED <<body, reviewReq, pod, labels, apiErr, patches, status,
                   written, fnVars>>

\* labels, err := getLabelsFromAPI()
MutateFetchLabels ==
    /\ pc = "Scoped"
    /\ calls' = Append(calls, "getLabelsFromAPI")
    /\ \E r \in ApiResults :
         /\ labels' = r.labels
         /\ apiErr' = r.err
         /\ IF r.err # ""
            THEN /\ response' = FetchErrorResponse(r.err)
                 /\ pc' = "Decided"
            ELSE /\ pc' = "LabelsFetched"
                 /\ UNCHANGED response
    /\ UNCHANGED <<body, reviewReq, pod, patches, status, written, fnVars>>

\* The patch loop, json.Marshal(patches) and the final return of mutate.
MutateBuildPatch ==
    /\ pc = "LabelsFetched"
    /\ calls' = Append(calls, "buildPatch")
    /\ \E o \in RangeOrders(labels) :
         /\ patches' = BuildPatch(pod.labels, labels, o)
         /\ response' = PatchResponse(MarshalPatch(patches'))
    /\ pc' = "Decided"
    /\ UNCHANGED <<body, reviewReq, pod, labels, apiErr, status, written,
                   fnVars>>

\* response.UID = reviewReq.Request.UID, the envelope, json.Marshal and
\* w.Write. Marshalling an AdmissionReview that holds only strings, a bool
\* and bytes cannot fail, so the 500 branch is never taken.
Respond ==
    /\ pc = "Decided"
    /\ response' = [response EXCEPT !.uid = reviewReq.request.uid]
    /\ written' = Append(written, Review(response'))
    /\ pc' = "Responded"
    /\ UNCHANGED <<body, reviewReq, pod, labels, apiErr, calls, patches,
                   status, fnVars>>

Next ==
    \/ ReadBody
    \/ ParseReview
    \/ MutateKind
    \/ MutateParsePod
    \/ MutatePredicate
    \/ MutateFetchLabels
    \/ MutateBuildPatch
    \/ Respond

Spec == Init /\ [][Next]_vars

-----------------------------------------------------------------------------
(* The patch loop and escapeJSONPointer on their own *)

\* The handler at rest, for the specifications that exercise one function.
Idle ==
    /\ pc = "Idle"
    /\ body = [form |-> "empty", typeErr |-> FALSE, request |-> NilRequest]
    /\ reviewReq = NoReview
    /\ pod = NoPod
    /\ labels = NilMap
    /\ apiErr = ""
    /\ calls = << >>
    /\ patches = << >>
    /\ response = AllowResponse
    /\ status = StatusOK
    /\ written = << >>

\* The strings handed to escapeJSONPointer.
EscapeAlphabet == {"~", "/", "0", "1", "a"}

EscapeInputs ==
    UNION { [1..n -> EscapeAlphabet] : n \in 0..MaxLen } \cup LabelKeys

InitEscape ==
    /\ Idle
    /\ fnIn \in EscapeInputs
    /\ fnOut = << >>

\* One call of escapeJSONPointer(fnIn).
CallEscape ==
    /\ fnOut = << >>
    /\ fnOut' = << escapeJSONPointer(fnIn) >>
    /\ UNCHANGED <<handlerVars, fnIn>>

NextEscape == CallEscape

SpecEscape == InitEscape /\ [][NextEscape]_vars

\* The inputs of the patch loop: pod.Labels nil, empty or a mapping (the loop
\* reads its keys only, so one value is enough), and the returned labels.
PatchInputs ==
    [existing : MapsUpTo(LabelKeys, {"x"}, MaxPodLabels) \cup {NilMap},
     desired : ApiLabelMaps]

\* The patch loop of mutate as a function of pod.Labels and labels.
InitPatch ==
    /\ Idle
    /\ fnIn \in PatchInputs
    /\ fnOut = << >>

\* One run of the patch loop on fnIn; the runs are independent.
RunPatch ==
    /\ Len(fnOut) < NumRuns
    /\ \E o \in RangeOrders(fnIn.desired) :
         fnOut' = Append(fnOut, BuildPatch(fnIn.existing, fnIn.desired, o))
    /\ UNCHANGED <<handlerVars, fnIn>>

NextPatch == RunPatch

SpecPatch == InitPatch /\ [][NextPatch]_vars

-----------------------------------------------------------------------------
(* Properties of the handler *)

\* The handler has ended: it replied, or its goroutine panicked.
Terminal == {"Responded", "Panicked"}

\* The AdmissionResponse of the last document written.
Sent == written[Len(written)].response

\* A response has the shape the API server accepts as an AdmissionReview.
ValidReview(doc) ==
    /\ doc.apiVersion = "admission.k8s.io/v1"
    /\ doc.kind = "AdmissionReview"
    /\ doc.response.allowed \in BOOLEAN

\* Number of times f occurs in calls.
Called(f) == Cardinality({ i \in DOMAIN calls : calls[i] = f })

\* The body is JSON and carries a request, so a UID can be read from it.
UIDRecoverable == body.form = "json" /\ ~body.request.isNil

\* The body is a well-formed review of a well-formed Pod.
PodReview ==
    /\ body.form = "json" /\ ~body.typeErr
    /\ ~body.request.isNil
    /\ body.request.kind = "Pod"
    /\ body.request.object.form = "json"
    /\ ~body.request.object.typeErr

\* The labels of the Pod as sent.
SentLabels == body.request.object.labels

\* Some label key of the Pod as sent begins with the marker.
HasMarker ==
    \E key \in DOMAIN SentLabels.m :
        /\ Len(key) >= Len(TargetPrefix)
        /\ \A i \in 1..Len(TargetPrefix) : key[i] = TargetPrefix[i]

\* C1: whenever a reply has been written for a body from which a request UID
\* can be recovered, the UID of the reply is the UID of the request; this
\* includes the replies written by writeAdmissionError.
C1_ResponseUIDMatches ==
    (pc = "Responded" /\ UIDRecoverable) => Sent.uid = body.request.uid

\* C2: the handler never ends without a reply: it never crashes, and when it
\* has ended it has written exactly one well-formed AdmissionReview.
C2_AlwaysResponds ==
    pc \in Terminal =>
        /\ pc = "Responded"
        /\ Len(written) = 1
        /\ ValidReview(written[1])

\* C3: for a Pod none of whose label keys begins with the marker (labels
\* absent or empty included) mutate returns Allowed=true with no patch and no
\* patch type, and the Label Source is not consulted.
C3_UnmarkedPodAllowed ==
    (PodReview /\ ~HasMarker) =>
        /\ pc # "Panicked"
        /\ Called("getLabelsFromAPI") = 0
        /\ Called("buildPatch") = 0
        /\ pc \in {"Decided", "Responded"} =>
              /\ response.allowed
              /\ ~response.patch.present
              /\ response.patchType = ""
        /\ pc = "Responded" =>
              /\ Sent.allowed
              /\ ~Sent.patch.present
              /\ Sent.patchType = ""

C3_Witness ==
    /\ pc = "Responded"
    /\ PodReview /\ ~HasMarker
    /\ Called("predicate") = 1
    /\ KeyInner \in DOMAIN SentLabels.m

\* A response keeps the rule "denied => no patch, patch => allowed and typed".
PatchRule(resp) ==
    /\ ~resp.allowed => ~resp.patch.present
    /\ resp.patch.present => (resp.allowed /\ resp.patchType = "JSONPatch")

\* C5: every AdmissionResponse returned by mutate or written by the handler
\* has no patch when Allowed=false, and is Allowed=true with patch type
\* JSONPatch when it has a patch.
C5_PatchOnlyWhenAllowed ==
    /\ pc \in {"Decided", "Responded"} => PatchRule(response)
    /\ \A i \in DOMAIN written : PatchRule(written[i].response)

C5_Witness ==
    /\ pc = "Responded"
    /\ Sent.patch.present
    /\ Len(Sent.patch.ops) = 2

\* C8: when getLabelsFromAPI fails, mutate returns Allowed=false with a
\* message that wraps the error and with no patch, the handler does not
\* crash, and getLabelsFromAPI is called at most once per review.
C8_FetchFailureDenied ==
    /\ Called("getLabelsFromAPI") <= 1
    /\ apiErr # "" =>
          /\ pc \in {"Decided", "Responded"}
          /\ ~response.allowed
          /\ response.message
                 = <<"Error retrieving labels from API: ", apiErr>>
          /\ ~response.patch.present
          /\ Called("buildPatch") = 0
          /\ pc = "Responded" =>
                /\ Len(written) = 1
                /\ ~Sent.allowed
                /\ Sent.message = response.message
                /\ ~Sent.patch.present

C8_Witness ==
    /\ pc = "Responded"
    /\ apiErr # ""
    /\ Called("getLabelsFromAPI") = 1

\* The body is not empty and does not parse as an AdmissionReview.
Unparsable ==
    \/ body.form = "syntax"
    \/ body.form = "json" /\ body.typeErr

\* C9: a non-empty body that does not parse as an AdmissionReview is answered
\* with status 400 and a review with Allowed=false, the message "Could not
\* unmarshal AdmissionReview" and no patch; mutate, the predicate, the Label
\* Source and the patch loop are not run.
C9_UnparsableBodyRejected ==
    Unparsable =>
        /\ pc \in {"Received", "Read", "Responded"}
        /\ \A i \in DOMAIN calls : calls[i] = "writeAdmissionError"
        /\ pc = "Responded" =>
              /\ status = StatusBadRequest
              /\ Len(written) = 1
              /\ ValidReview(written[1])
              /\ ~Sent.allowed
              /\ Sent.message = <<"Could not unmarshal AdmissionReview">>
              /\ ~Sent.patch.present

C9_Witness ==
    /\ pc = "Responded"
    /\ body.form = "json" /\ body.typeErr
    /\ ~body.request.isNil
    /\ Len(written) = 1

-----------------------------------------------------------------------------
(* JSON Pointer (RFC 6901) and JSON Patch (RFC 6902) as the API server
   reads them *)

\* Replace every occurrence of the two characters a b by new, left to right.
RECURSIVE ReplacePair(_, _, _, _)
ReplacePair(s, a, b, new) ==
    IF s = << >> THEN << >>
    ELSE IF Len(s) >= 2 /\ s[1] = a /\ s[2] = b
    THEN new \o ReplacePair(SubSeq(s, 3, Len(s)), a, b, new)
    ELSE <<Head(s)>> \o ReplacePair(Tail(s), a, b, new)

\* RFC 6901 section 4: first "~1" becomes "/", then "~0" becomes "~".
Unescape(seg) ==
    ReplacePair(ReplacePair(seg, "~", "1", <<"/">>), "~", "0", <<"~">>)

\* The image of one character under the escaping.
EscapeChar(c) ==
    IF c = "~" THEN <<"~","0">> ELSE IF c = "/" THEN <<"~","1">> ELSE <<c>>

\* Every character of s replaced by its image, nothing else touched.
RECURSIVE EscapeEach(_)
EscapeEach(s) ==
    IF s = << >> THEN << >> ELSE EscapeChar(Head(s)) \o EscapeEach(Tail(s))

\* The reference tokens of s, which are separated by "/".
RECURSIVE Tokens(_)
Tokens(s) ==
    IF \A i \in DOMAIN s : s[i] # "/"
    THEN << s >>
    ELSE LET i == CHOOSE k \in DOMAIN s :
                      /\ s[k] = "/"
                      /\ \A j \in 1..(k - 1) : s[j] # "/"
         IN << SubSeq(s, 1, i - 1) >> \o Tokens(SubSeq(s, i + 1, Len(s)))

\* The unescaped reference tokens of a JSON Pointer ("" is the root).
PointerTokens(path) ==
    IF path = << >> THEN << >>
    ELSE LET t == Tokens(Tail(path)) IN [i \in DOMAIN t |-> Unescape(t[i])]

\* A Pod document, reduced to its metadata.labels; ok is FALSE once an
\* operation has failed.
Doc(lbls) == [ok |-> TRUE, labels |-> lbls]

Failed == [ok |-> FALSE, labels |-> NilMap]

Put(f, k, v) == [x \in DOMAIN f \cup {k} |-> IF x = k THEN v ELSE f[x]]

\* One operation: "add" needs the parent to exist and sets or overwrites the
\* member; "replace" needs the member itself to exist.
ApplyOp(doc, op) ==
    LET t == PointerTokens(op.path) IN
    IF ~doc.ok \/ op.path = << >> \/ Head(op.path) # "/" THEN Failed
    ELSE IF t = << <<"m","e","t","a","d","a","t","a">>,
                   <<"l","a","b","e","l","s">> >>
    THEN IF ~op.value.object THEN Failed
         ELSE IF op.op = "add" THEN Doc(MakeMap(<< >>))
         ELSE IF op.op = "replace" /\ ~doc.labels.isNil
         THEN Doc(MakeMap(<< >>))
         ELSE Failed
    ELSE IF /\ Len(t) = 3
            /\ t[1] = <<"m","e","t","a","d","a","t","a">>
            /\ t[2] = <<"l","a","b","e","l","s">>
    THEN IF doc.labels.isNil \/ op.value.object THEN Failed
         ELSE IF op.op = "add"
         THEN Doc(MakeMap(Put(doc.labels.m, t[3], op.value.str)))
         ELSE IF op.op = "replace" /\ t[3] \in DOMAIN doc.labels.m
         THEN Doc(MakeMap(Put(doc.labels.m, t[3], op.value.str)))
         ELSE Failed
    ELSE Failed

\* The operations applied in order; the first failure fails the patch.
RECURSIVE ApplyPatch(_, _)
ApplyPatch(doc, ops) ==
    IF ops = << >> THEN doc
    ELSE ApplyPatch(ApplyOp(doc, Head(ops)), Tail(ops))

\* existing merged with desired, desired winning where both have the key.
Merged(existing, desired) ==
    [k \in DOMAIN existing.m \cup DOMAIN desired.m |->
        IF k \in DOMAIN desired.m THEN desired.m[k] ELSE existing.m[k]]

\* The same mapping, whatever the order the keys were put in.
SameMapping(f, g) ==
    /\ DOMAIN f = DOMAIN g
    /\ \A k \in DOMAIN f : f[k] = g[k]

-----------------------------------------------------------------------------
(* Properties of the patch and of the escaping *)

\* C4: for a Pod with the marker and any labels returned by the Label Source,
\* the patch applies without failure to the labels of the Pod as sent and
\* yields these labels merged with the returned ones, the returned ones
\* winning; applied once more to the result it yields the same mapping.
C4_PatchYieldsMerge ==
    (PodReview /\ HasMarker /\ pc \in {"Decided", "Responded"}
        /\ response.patch.present) =>
        LET ops == response.patch.ops
            once == ApplyPatch(Doc(SentLabels), ops)
            twice == ApplyPatch(once, ops)
        IN /\ once.ok
           /\ SameMapping(once.labels.m, Merged(SentLabels, labels))
           /\ twice.ok
           /\ SameMapping(twice.labels.m, once.labels.m)

C4_Witness ==
    /\ pc = "Responded"
    /\ PodReview /\ HasMarker
    /\ Sent.patch.present
    /\ \E i, j \in DOMAIN Sent.patch.ops :
          /\ Sent.patch.ops[i].op = "add"
          /\ Sent.patch.ops[j].op = "replace"
    /\ \E k \in DOMAIN SentLabels.m \cap DOMAIN labels.m :
          SentLabels.m[k] # labels.m[k]

\* C6: escapeJSONPointer turns every "~" into "~0" and every "/" into "~1"
\* and touches nothing else, "a/b~c" becomes "a~1b~0c", the result has no
\* "/", and RFC 6901 unescaping of the result gives back the key.
C6_EscapeRoundTrips ==
    fnOut # << >> =>
        /\ fnOut[1] = EscapeEach(fnIn)
        /\ Unescape(fnOut[1]) = fnIn
        /\ \A i \in DOMAIN fnOut[1] : fnOut[1][i] # "/"
        /\ fnIn = <<"a","/","b","~","c">> =>
              fnOut[1] = <<"a","~","1","b","~","0","c">>

C6_Witness ==
    /\ fnIn = <<"a","/","b","~","c">>
    /\ fnOut = << <<"a","~","1","b","~","0","c">> >>

\* The operation that creates the labels object.
IsParentAdd(op) ==
    /\ op.op = "add"
    /\ op.path = <<"/","m","e","t","a","d","a","t","a",
                   "/","l","a","b","e","l","s">>
    /\ op.value.object

\* C7: when the patch is built for labels that are absent (nil), its first
\* operation is add /metadata/labels {} and no later operation is; when the
\* labels are present, even empty, the patch has no such operation.
C7_ParentAddOnlyWhenAbsent ==
    \A r \in DOMAIN fnOut :
        LET p == fnOut[r] IN
        /\ fnIn.existing.isNil =>
              /\ Len(p) >= 1
              /\ IsParentAdd(p[1])
              /\ \A i \in 2..Len(p) : ~IsParentAdd(p[i])
              /\ Len(p) = 1 + Cardinality(DOMAIN fnIn.desired.m)
        /\ ~fnIn.existing.isNil =>
              /\ \A i \in DOMAIN p : ~IsParentAdd(p[i])
              /\ Len(p) = Cardinality(DOMAIN fnIn.desired.m)

C7_Witness ==
    /\ fnOut # << >>
    /\ fnIn.existing.isNil
    /\ Len(fnOut[1]) = 3
    /\ IsParentAdd(fnOut[1][1])

====
